---- MODULE Spec2Model ----
(***************************************************************************)
(* Model of weasyprint-service/main.py: a FastAPI shim that checks an      *)
(* optional bearer token, splices custom CSS into the HTML string, hands   *)
(* the string to the WeasyPrint renderer and serialises the bytes.         *)
(*                                                                         *)
(* A Python str is a sequence of one-character strings, bytes a sequence   *)
(* of integers 0..255, and an Optional[str] a record [some, val].          *)
(***************************************************************************)
EXTENDS Integers, Sequences, FiniteSets, TLC

VARIABLES API_KEY, authorization, request, weasyprint, resp

vars == <<API_KEY, authorization, request, weasyprint, resp>>

(***************************************************************************)
(* Bounds of the enumerated inputs.                                        *)
(***************************************************************************)
MaxSegs == 3
MaxRest == 3
MaxKeyLen == 2
MaxPdfLen == 2

(***************************************************************************)
(* Strings.                                                                *)
(***************************************************************************)
None == [some |-> FALSE, val |-> <<>>]

Some(s) == [some |-> TRUE, val |-> s]

\* bool(x) of an Optional[str]: None and "" are falsy.
Truthy(o) == o.some /\ o.val # <<>>

Seqs(S, n) == UNION {[1..k -> S] : k \in 0..n}

RECURSIVE Flatten(_)
Flatten(ss) == IF ss = <<>> THEN <<>> ELSE Head(ss) \o Flatten(Tail(ss))

\* A character is a one-character string: a printable ASCII character is
\* itself, tab, line feed, carriage return and form feed are "\t", "\n",
\* "\r" and "\f", and any other code point (the grave accent U+0060
\* included) is named "U+XXXX".
AsciiChars ==
    {"U+0000","U+0001","U+0002","U+0003","U+0004","U+0005","U+0006",
     "U+0007","U+0008","\t","\n","U+000B","\f","\r","U+000E","U+000F",
     "U+0010","U+0011","U+0012","U+0013","U+0014","U+0015","U+0016",
     "U+0017","U+0018","U+0019","U+001A","U+001B","U+001C","U+001D",
     "U+001E","U+001F"," ","!","\"","#","$","%","&","'","(",")","*","+",
     ",","-",".","/","0","1","2","3","4","5","6","7","8","9",":",";",
     "<","=",">","?","@","A","B","C","D","E","F","G","H","I","J","K",
     "L","M","N","O","P","Q","R","S","T","U","V","W","X","Y","Z","[",
     "\\","]","^","_","U+0060","a","b","c","d","e","f","g","h","i","j","k",
     "l","m","n","o","p","q","r","s","t","u","v","w","x","y","z","{",
     "|","}","~","U+007F"}

\* A letter outside ASCII.
NonAsciiChar == "U+00E9"

\* str.isascii(): every code point is below U+0080.
IsAscii(s) == \A i \in 1..Len(s) : s[i] \in AsciiChars

\* The characters str.split() separates on (str.isspace()): the ASCII ones
\* and those above U+007F.
AsciiWhitespace ==
    {"\t","\n","U+000B","\f","\r","U+001C","U+001D","U+001E","U+001F",
     " "}

UnicodeWhitespace ==
    {"U+0085","U+00A0","U+1680","U+2000","U+2001","U+2002","U+2003",
     "U+2004","U+2005","U+2006","U+2007","U+2008","U+2009","U+200A",
     "U+2028","U+2029","U+202F","U+205F","U+3000"}

Whitespace == AsciiWhitespace \cup UnicodeWhitespace

UpperAZ == <<"A","B","C","D","E","F","G","H","I","J","K","L","M",
             "N","O","P","Q","R","S","T","U","V","W","X","Y","Z">>

LowerAZ == <<"a","b","c","d","e","f","g","h","i","j","k","l","m",
             "n","o","p","q","r","s","t","u","v","w","x","y","z">>

LowerChar(c) ==
    IF \E i \in 1..26 : UpperAZ[i] = c
    THEN LowerAZ[CHOOSE i \in 1..26 : UpperAZ[i] = c]
    ELSE c

\* str.lower() on the ASCII letters; no character outside ASCII lowers to
\* a letter of 'bearer', so the comparison at line 69 is decided by these.
Lower(s) == [i \in 1..Len(s) |-> LowerChar(s[i])]

\* str.split() without arguments: the maximal runs of non-whitespace.
RECURSIVE SplitFrom(_, _)
SplitFrom(s, cur) ==
    IF s = <<>> THEN (IF cur = <<>> THEN <<>> ELSE <<cur>>)
    ELSE IF Head(s) \in Whitespace
         THEN (IF cur = <<>> THEN <<>> ELSE <<cur>>) \o SplitFrom(Tail(s), <<>>)
         ELSE SplitFrom(Tail(s), Append(cur, Head(s)))

Split(s) == SplitFrom(s, <<>>)

StartsWith(s, p) == Len(s) >= Len(p) /\ SubSeq(s, 1, Len(p)) = p

\* The positions at which sub occurs in s.
Occurrences(sub, s) ==
    {i \in 1..(Len(s) - Len(sub) + 1) : SubSeq(s, i, i + Len(sub) - 1) = sub}

\* sub in s
Contains(sub, s) == Occurrences(sub, s) # {}

DropFirst(s, n) == SubSeq(s, n + 1, Len(s))

\* A left-to-right scan that replaces only the first match.
RECURSIVE ReplaceFirstOnly(_, _, _)
ReplaceFirstOnly(s, old, new) ==
    IF Len(s) < Len(old) THEN s
    ELSE IF StartsWith(s, old)
         THEN new \o DropFirst(s, Len(old))
         ELSE <<Head(s)>> \o ReplaceFirstOnly(Tail(s), old, new)

\* str.replace(old, new) for a non-empty old: every non-overlapping match,
\* found left to right, is replaced.
RECURSIVE Replace(_, _, _)
Replace(s, old, new) ==
    IF Len(s) < Len(old) THEN s
    ELSE IF StartsWith(s, old)
         THEN new \o Replace(DropFirst(s, Len(old)), old, new)
         ELSE <<Head(s)>> \o Replace(Tail(s), old, new)

Digits == <<"0","1","2","3","4","5","6","7","8","9">>

\* str(n) of a non-negative int
RECURSIVE IntToStr(_)
IntToStr(n) ==
    IF n < 10 THEN <<Digits[n + 1]>>
    ELSE IntToStr(n \div 10) \o <<Digits[(n % 10) + 1]>>

(***************************************************************************)
(* Literals of main.py.                                                    *)
(***************************************************************************)
DefaultApiKey ==
    <<"d","e","f","a","u","l","t","-","d","e","v","-","k","e","y","-",
      "c","h","a","n","g","e","-","i","n","-","p","r","o","d","u","c",
      "t","i","o","n">>

bearer ==
    <<"b","e","a","r","e","r">>

InvalidApiKeyDetail ==
    <<"I","n","v","a","l","i","d"," ","A","P","I"," ","k","e","y">>

FailedPrefix ==
    <<"P","D","F"," ","g","e","n","e","r","a","t","i","o","n"," ","f",
      "a","i","l","e","d",":"," ">>

StyleOpen ==
    <<"<","s","t","y","l","e",">">>

StyleClose ==
    <<"<","/","s","t","y","l","e",">">>

HeadOpen ==
    <<"<","h","e","a","d",">">>

HeadClose ==
    <<"<","/","h","e","a","d",">">>

BodyOpen ==
    <<"<","b","o","d","y",">">>

BodyClose ==
    <<"<","/","b","o","d","y",">">>

HtmlOpen ==
    <<"<","h","t","m","l",">">>

HtmlClose ==
    <<"<","/","h","t","m","l",">">>

test_html ==
    <<"<","h","t","m","l",">","<","b","o","d","y",">","T","e","s","t",
      "<","/","b","o","d","y",">","<","/","h","t","m","l",">">>

B64Alphabet ==
    <<"A","B","C","D","E","F","G","H","I","J","K","L","M","N","O","P",
      "Q","R","S","T","U","V","W","X","Y","Z","a","b","c","d","e","f",
      "g","h","i","j","k","l","m","n","o","p","q","r","s","t","u","v",
      "w","x","y","z","0","1","2","3","4","5","6","7","8","9","+",
      "/">>

(***************************************************************************)
(* base64.b64encode over bytes.                                            *)
(***************************************************************************)
B64Char(n) == B64Alphabet[n + 1]

B64Group(b) ==
    LET n == b[1] * 65536
             + (IF Len(b) >= 2 THEN b[2] ELSE 0) * 256
             + (IF Len(b) >= 3 THEN b[3] ELSE 0)
    IN  <<B64Char(n \div 262144),
          B64Char((n \div 4096) % 64),
          IF Len(b) >= 2 THEN B64Char((n \div 64) % 64) ELSE "=",
          IF Len(b) >= 3 THEN B64Char(n % 64) ELSE "=">>

\* base64.b64encode(b).decode('utf-8'): the output is ASCII, so the decode
\* maps each byte to the character of the same code.
RECURSIVE b64encode(_)
b64encode(b) ==
    IF b = <<>> THEN <<>>
    ELSE IF Len(b) <= 3 THEN B64Group(b)
    ELSE B64Group(SubSeq(b, 1, 3)) \o b64encode(DropFirst(b, 3))

(***************************************************************************)
(* verify_api_key                                                          *)
(***************************************************************************)
\* hmac.compare_digest raises TypeError on a str with a non-ASCII character.
CompareDigestRaises(a, b) == ~IsAscii(a) \/ ~IsAscii(b)

compare_digest(a, b) == a = b

\* The same check with the scheme keyword compared case-sensitively.
verify_api_key_case_sensitive(auth) ==
    IF ~Truthy(auth) THEN FALSE
    ELSE LET parts == Split(auth.val)
         IN  IF Len(parts) # 2 \/ parts[1] # <<"B","e","a","r","e","r">>
             THEN FALSE
             ELSE IF CompareDigestRaises(parts[2], API_KEY) THEN FALSE
             ELSE compare_digest(parts[2], API_KEY)

\* The same check comparing only a prefix of the provided key.
verify_api_key_prefix(auth) ==
    IF ~Truthy(auth) THEN FALSE
    ELSE LET parts == Split(auth.val)
         IN  IF Len(parts) # 2 \/ Lower(parts[1]) # bearer THEN FALSE
             ELSE IF CompareDigestRaises(parts[2], API_KEY) THEN FALSE
             ELSE StartsWith(parts[2], API_KEY)

verify_api_key(auth) ==
    IF ~Truthy(auth) THEN FALSE
    ELSE LET parts == Split(auth.val)
         IN  IF Len(parts) # 2 \/ Lower(parts[1]) # bearer THEN FALSE
             ELSE IF CompareDigestRaises(parts[2], API_KEY) THEN FALSE
             ELSE compare_digest(parts[2], API_KEY)

(***************************************************************************)
(* The rendering collaborator.  weasyprint is its behaviour while the      *)
(* request is served: it raises with an error text or returns bytes.       *)
(***************************************************************************)
Raises(err) == [raises |-> TRUE, pdf_bytes |-> <<>>, error |-> err]

Returns(bytes) == [raises |-> FALSE, pdf_bytes |-> bytes, error |-> <<>>]

(***************************************************************************)
(* GET / and GET /health.  The field rendered of a response lists the      *)
(* strings the handler handed to weasyprint.HTML(...).write_pdf().         *)
(***************************************************************************)
root_response ==
    [status_code |-> 200, status |-> "healthy",
     service |-> "WeasyPrint PDF Service", version |-> "1.0.0",
     rendered |-> <<>>]

\* A health check that answers without exercising the renderer.
health_check_no_probe ==
    [status_code |-> 200, status |-> "healthy", weasyprint |-> "functional",
     pdf_generation |-> "working", rendered |-> <<>>]

health_check_response ==
    IF weasyprint.raises
    THEN [status_code |-> 200, status |-> "unhealthy",
          error |-> weasyprint.error, rendered |-> <<test_html>>]
    ELSE [status_code |-> 200, status |-> "healthy",
          weasyprint |-> "functional", pdf_generation |-> "working",
          rendered |-> <<test_html>>]

(***************************************************************************)
(* POST /generate-pdf                                                      *)
(***************************************************************************)
\* The guard with a missing header rejected as well.
generate_pdf_rejects_missing(auth) == ~verify_api_key(auth)

generate_pdf_rejects(auth) == Truthy(auth) /\ ~verify_api_key(auth)

\* The injection with customCss tested against None only.
generate_pdf_html_content_not_none(req) ==
    IF ~req.customCss.some THEN req.htmlContent
    ELSE LET css_tag == StyleOpen \o req.customCss.val \o StyleClose
         IN  IF Contains(HeadClose, req.htmlContent)
             THEN Replace(req.htmlContent, HeadClose, css_tag \o HeadClose)
             ELSE IF Contains(BodyOpen, req.htmlContent)
             THEN Replace(req.htmlContent, BodyOpen,
                          HeadOpen \o css_tag \o HeadClose \o BodyOpen)
             ELSE HtmlOpen \o HeadOpen \o css_tag \o HeadClose \o BodyOpen
                  \o req.htmlContent \o BodyClose \o HtmlClose

generate_pdf_html_content(req) ==
    IF ~Truthy(req.customCss) THEN req.htmlContent
    ELSE LET css_tag == StyleOpen \o req.customCss.val \o StyleClose
         IN  IF Contains(HeadClose, req.htmlContent)
             THEN Replace(req.htmlContent, HeadClose, css_tag \o HeadClose)
             ELSE IF Contains(BodyOpen, req.htmlContent)
             THEN Replace(req.htmlContent, BodyOpen,
                          HeadOpen \o css_tag \o HeadClose \o BodyOpen)
             ELSE HtmlOpen \o HeadOpen \o css_tag \o HeadClose \o BodyOpen
                  \o req.htmlContent \o BodyClose \o HtmlClose

\* The handler with a second render attempt after a failure.
generate_pdf_response_retry(req, auth) ==
    IF generate_pdf_rejects(auth)
    THEN [status_code |-> 401, detail |-> InvalidApiKeyDetail,
          rendered |-> <<>>]
    ELSE LET html_content == generate_pdf_html_content(req)
         IN  IF weasyprint.raises
             THEN [status_code |-> 500,
                   detail |-> FailedPrefix \o weasyprint.error,
                   rendered |-> <<html_content, html_content>>]
             ELSE [status_code |-> 200,
                   content |-> weasyprint.pdf_bytes,
                   media_type |-> "application/pdf",
                   content_disposition |-> "attachment; filename=document.pdf",
                   content_length |-> IntToStr(Len(weasyprint.pdf_bytes)),
                   rendered |-> <<html_content>>]

generate_pdf_response(req, auth) ==
    IF generate_pdf_rejects(auth)
    THEN [status_code |-> 401, detail |-> InvalidApiKeyDetail,
          rendered |-> <<>>]
    ELSE LET html_content == generate_pdf_html_content(req)
         IN  IF weasyprint.raises
             THEN [status_code |-> 500,
                   detail |-> FailedPrefix \o weasyprint.error,
                   rendered |-> <<html_content>>]
             ELSE [status_code |-> 200,
                   content |-> weasyprint.pdf_bytes,
                   media_type |-> "application/pdf",
                   content_disposition |-> "attachment; filename=document.pdf",
                   content_length |-> IntToStr(Len(weasyprint.pdf_bytes)),
                   rendered |-> <<html_content>>]

(***************************************************************************)
(* POST /generate-pdf-base64                                               *)
(***************************************************************************)
generate_pdf_base64_rejects(auth) == Truthy(auth) /\ ~verify_api_key(auth)

\* The injection with the bare style block put before <body>.
generate_pdf_base64_html_content_bare_style(req) ==
    IF ~Truthy(req.customCss) THEN req.htmlContent
    ELSE LET css_tag == StyleOpen \o req.customCss.val \o StyleClose
         IN  IF Contains(HeadClose, req.htmlContent)
             THEN Replace(req.htmlContent, HeadClose, css_tag \o HeadClose)
             ELSE IF Contains(BodyOpen, req.htmlContent)
             THEN Replace(req.htmlContent, BodyOpen, css_tag \o BodyOpen)
             ELSE HtmlOpen \o HeadOpen \o css_tag \o HeadClose \o BodyOpen
                  \o req.htmlContent \o BodyClose \o HtmlClose

generate_pdf_base64_html_content(req) ==
    IF ~Truthy(req.customCss) THEN req.htmlContent
    ELSE LET css_tag == StyleOpen \o req.customCss.val \o StyleClose
         IN  IF Contains(HeadClose, req.htmlContent)
             THEN Replace(req.htmlContent, HeadClose, css_tag \o HeadClose)
             ELSE IF Contains(BodyOpen, req.htmlContent)
             THEN Replace(req.htmlContent, BodyOpen,
                          HeadOpen \o css_tag \o HeadClose \o BodyOpen)
             ELSE HtmlOpen \o HeadOpen \o css_tag \o HeadClose \o BodyOpen
                  \o req.htmlContent \o BodyClose \o HtmlClose

\* The handler reporting the length of the encoded text as size.
generate_pdf_base64_response_encoded_size(req, auth) ==
    IF generate_pdf_base64_rejects(auth)
    THEN [status_code |-> 401, detail |-> InvalidApiKeyDetail,
          rendered |-> <<>>]
    ELSE LET html_content == generate_pdf_base64_html_content(req)
         IN  IF weasyprint.raises
             THEN [status_code |-> 500,
                   detail |-> FailedPrefix \o weasyprint.error,
                   rendered |-> <<html_content>>]
             ELSE LET pdf_base64 == b64encode(weasyprint.pdf_bytes)
                  IN  [status_code |-> 200, pdf |-> pdf_base64,
                       size |-> Len(pdf_base64), encoding |-> "base64",
                       rendered |-> <<html_content>>]

generate_pdf_base64_response(req, auth) ==
    IF generate_pdf_base64_rejects(auth)
    THEN [status_code |-> 401, detail |-> InvalidApiKeyDetail,
          rendered |-> <<>>]
    ELSE LET html_content == generate_pdf_base64_html_content(req)
         IN  IF weasyprint.raises
             THEN [status_code |-> 500,
                   detail |-> FailedPrefix \o weasyprint.error,
                   rendered |-> <<html_content>>]
             ELSE LET pdf_base64 == b64encode(weasyprint.pdf_bytes)
                  IN  [status_code |-> 200, pdf |-> pdf_base64,
                       size |-> Len(weasyprint.pdf_bytes),
                       encoding |-> "base64",
                       rendered |-> <<html_content>>]

(***************************************************************************)
(* The enumerated inputs.                                                  *)
(***************************************************************************)
Bearer == <<"B","e","a","r","e","r">>

Schemes == {<<>>, Bearer, <<"b","E","A","R","E","R">>, <<"B","a","s","i","c">>}

KeyChars == {"a", " "}

\* Separators of str.split() other than the space: ASCII controls and
\* code points above U+007F.
OddSeparators == {"\t", "\f", "U+001C", "U+0085", "U+00A0", "U+3000"}

\* Secrets holding such a separator.
OddSecrets == {<<"a", w, "a">> : w \in OddSeparators} \cup {<<"\f">>}

HeaderValues ==
    {s \o r : s \in Schemes, r \in Seqs(KeyChars, MaxRest)}
    \cup {Bearer \o <<" ">> \o k :
            k \in {<<"A">>, <<NonAsciiChar>>, DefaultApiKey} \cup OddSecrets}
    \cup {Bearer \o <<w, "a">> : w \in OddSeparators}
    \cup {Bearer \o <<" ", "a", w>> : w \in OddSeparators}
    \cup {<<w>> \o Bearer \o <<" ", "a">> : w \in OddSeparators}
    \cup {<<w>> : w \in OddSeparators}

Headers == {None} \cup {Some(h) : h \in HeaderValues}

\* os.environ.get('WEASYPRINT_API_KEY', default): any string of the
\* environment, or the default.
Secrets ==
    Seqs(KeyChars, MaxKeyLen) \cup {<<NonAsciiChar>>, DefaultApiKey}
    \cup OddSecrets

Chunks == {HeadClose, BodyOpen, <<"<">>, <<"p">>}

Htmls == {Flatten(p) : p \in Seqs(Chunks, MaxSegs)}

CssValues == {None, Some(<<>>), Some(<<"b","{","}">>)}

PdfSample == <<37, 80, 68, 70, 45, 49, 46, 55, 10, 37, 37, 69, 79, 70>>

PdfBytes == Seqs({0, 165, 255}, MaxPdfLen) \cup {PdfSample}

ErrTexts == {<<>>, <<"o","o","m">>}

Outcomes == {Returns(b) : b \in PdfBytes} \cup {Raises(e) : e \in ErrTexts}

Fragment == [htmlContent |-> <<"H","i">>, customCss |-> None]

AuthInputs ==
    [key : Secrets, authorization : Headers, request : {Fragment},
     weasyprint : {Returns(PdfSample), Raises(<<"o","o","m">>)}]

CssInputs ==
    [key : {DefaultApiKey}, authorization : {None},
     request : [htmlContent : Htmls, customCss : CssValues],
     weasyprint : {Returns(PdfSample)}]

RenderInputs ==
    [key : {<<"a">>}, authorization : {None, Some(Bearer \o <<" ", "a">>)},
     request : {[htmlContent |-> BodyOpen \o <<"H","i">>,
                 customCss |-> Some(<<"b","{","}">>)]},
     weasyprint : Outcomes]

Inputs == AuthInputs \cup CssInputs \cup RenderInputs

(***************************************************************************)
(* The state machine: one request in flight, served by any endpoint.       *)
(***************************************************************************)
Endpoints == {"root", "health_check", "generate_pdf", "generate_pdf_base64"}

NoResponse == [status_code |-> 0]

Init ==
    /\ \E i \in Inputs :
        /\ API_KEY = i.key
        /\ authorization = i.authorization
        /\ request = i.request
        /\ weasyprint = i.weasyprint
    /\ resp = [e \in Endpoints |-> NoResponse]

root ==
    /\ resp' = [resp EXCEPT !["root"] = root_response]
    /\ UNCHANGED <<API_KEY, authorization, request, weasyprint>>

health_check ==
    /\ resp' = [resp EXCEPT !["health_check"] = health_check_response]
    /\ UNCHANGED <<API_KEY, authorization, request, weasyprint>>

generate_pdf ==
    /\ resp' = [resp EXCEPT !["generate_pdf"] =
                    generate_pdf_response(request, authorization)]
    /\ UNCHANGED <<API_KEY, authorization, request, weasyprint>>

generate_pdf_base64 ==
    /\ resp' = [resp EXCEPT !["generate_pdf_base64"] =
                    generate_pdf_base64_response(request, authorization)]
    /\ UNCHANGED <<API_KEY, authorization, request, weasyprint>>

Next == root \/ health_check \/ generate_pdf \/ generate_pdf_base64

Spec == Init /\ [][Next]_vars

(***************************************************************************)
(* Vocabulary of the properties.                                           *)
(***************************************************************************)
PostEndpoints == {"generate_pdf", "generate_pdf_base64"}

Done(e) == resp[e] # NoResponse

Unauthorized == [status_code |-> 401, detail |-> InvalidApiKeyDetail,
                 rendered |-> <<>>]

HasNoWhitespace(s) == \A i \in 1..Len(s) : s[i] \notin Whitespace

\* The header is a bearer scheme keyword (any letter case), one space and tok.
IsBearerHeader(h, tok) ==
    /\ h.some
    /\ Len(h.val) = 7 + Len(tok)
    /\ Lower(SubSeq(h.val, 1, 6)) = bearer
    /\ h.val[7] = " "
    /\ DropFirst(h.val, 7) = tok

\* The text that follows 'Bearer ' in the header.
BearerToken == DropFirst(authorization.val, 7)

\* The header is 'Bearer <token>' for a token that differs from the
\* configured secret.
WrongBearerToken ==
    /\ authorization.some
    /\ StartsWith(authorization.val, Bearer \o <<" ">>)
    /\ BearerToken # API_KEY

RECURSIVE DropLeadingWhitespace(_)
DropLeadingWhitespace(s) ==
    IF s # <<>> /\ Head(s) \in Whitespace
    THEN DropLeadingWhitespace(Tail(s))
    ELSE s

RECURSIVE DropTrailingWhitespace(_)
DropTrailingWhitespace(s) ==
    IF s # <<>> /\ s[Len(s)] \in Whitespace
    THEN DropTrailingWhitespace(SubSeq(s, 1, Len(s) - 1))
    ELSE s

\* s without its leading and trailing whitespace.
Strip(s) == DropTrailingWhitespace(DropLeadingWhitespace(s))

\* The header is present and is not two whitespace-separated parts of which
\* the first is 'bearer' in some letter case.
MalformedHeader ==
    /\ authorization.some
    /\ LET parts == Split(authorization.val)
       IN  Len(parts) # 2 \/ Lower(parts[1]) # bearer

Min(S) == CHOOSE m \in S : \A n \in S : m <= n

\* s with tag spliced in before each position of at, nothing else changed.
InsertBefore(s, at, tag) ==
    Flatten([i \in 1..Len(s) |->
                (IF i \in at THEN tag ELSE <<>>) \o <<s[i]>>])

CssTag == StyleOpen \o request.customCss.val \o StyleClose

HeadBlock == HeadOpen \o CssTag \o HeadClose

B64Index(c) == (CHOOSE i \in 1..64 : B64Alphabet[i] = c) - 1

B64Ungroup(g) ==
    LET pad == IF g[3] = "=" THEN 2 ELSE IF g[4] = "=" THEN 1 ELSE 0
        n == B64Index(g[1]) * 262144 + B64Index(g[2]) * 4096
             + (IF pad < 2 THEN B64Index(g[3]) ELSE 0) * 64
             + (IF pad < 1 THEN B64Index(g[4]) ELSE 0)
    IN  SubSeq(<<n \div 65536, (n \div 256) % 256, n % 256>>, 1, 3 - pad)

\* base64.b64decode, what a client applies to the 'pdf' field.
RECURSIVE b64decode(_)
b64decode(s) ==
    IF Len(s) < 4 THEN <<>>
    ELSE B64Ungroup(SubSeq(s, 1, 4)) \o b64decode(DropFirst(s, 4))

RECURSIVE DecimalValue(_)
DecimalValue(s) ==
    IF s = <<>> THEN 0
    ELSE 10 * DecimalValue(SubSeq(s, 1, Len(s) - 1))
         + (CHOOSE d \in 0..9 : Digits[d + 1] = s[Len(s)])

(***************************************************************************)
(* C1 as stated: on both generate endpoints a request whose header is      *)
(* 'Bearer <token>' with a token other than the configured secret is       *)
(* answered 401 'Invalid API key', with no render call and no PDF bytes.   *)
(***************************************************************************)
C1_AnyWrongTokenRejected ==
    \A e \in PostEndpoints :
        (Done(e) /\ WrongBearerToken) => resp[e] = Unauthorized

(***************************************************************************)
(* C1 amended: on both generate endpoints a request whose header is        *)
(* 'Bearer <token>' with a token that is not the configured secret, also   *)
(* not once its leading and trailing whitespace is removed, is answered    *)
(* 401 'Invalid API key', with no render call and no PDF bytes.            *)
(***************************************************************************)
C1_WrongTokenRejected ==
    \A e \in PostEndpoints :
        (Done(e) /\ WrongBearerToken /\ Strip(BearerToken) # API_KEY) =>
            resp[e] = Unauthorized

C1_Witness ==
    /\ WrongBearerToken
    /\ Strip(BearerToken) # API_KEY
    /\ API_KEY # <<>>
    /\ StartsWith(BearerToken, API_KEY)
    /\ HasNoWhitespace(BearerToken)
    /\ \A e \in PostEndpoints : resp[e] = Unauthorized

(***************************************************************************)
(* C2: on both generate endpoints a request without an Authorization       *)
(* header is never answered 401; the handler hands one string to the       *)
(* renderer, whatever the configured secret is.                            *)
(***************************************************************************)
C2_MissingHeaderRenders ==
    \A e \in PostEndpoints :
        (Done(e) /\ authorization = None) =>
            /\ resp[e].status_code \in {200, 500}
            /\ Len(resp[e].rendered) = 1

C2_Witness ==
    /\ authorization = None
    /\ API_KEY = <<"a">>
    /\ \A e \in PostEndpoints : Done(e) /\ resp[e].status_code = 200

(***************************************************************************)
(* C3 as stated: for every configured secret, a header 'Bearer ' followed  *)
(* by exactly that secret (keyword in any letter case) is authorized and   *)
(* the renderer is invoked.                                                *)
(***************************************************************************)
C3_AnySecretAuthorized ==
    \A e \in PostEndpoints :
        (Done(e) /\ IsBearerHeader(authorization, API_KEY)) =>
            /\ resp[e].status_code # 401
            /\ Len(resp[e].rendered) = 1

(***************************************************************************)
(* C3 amended: for every configured secret that is non-empty, ASCII and    *)
(* free of whitespace, a header 'Bearer ' followed by exactly that secret  *)
(* (keyword in any letter case) is authorized and the renderer is invoked. *)
(***************************************************************************)
C3_TokenSecretAuthorized ==
    \A e \in PostEndpoints :
        (/\ Done(e)
         /\ IsBearerHeader(authorization, API_KEY)
         /\ API_KEY # <<>>
         /\ IsAscii(API_KEY)
         /\ HasNoWhitespace(API_KEY)) =>
            /\ resp[e].status_code # 401
            /\ Len(resp[e].rendered) = 1

C3_Witness ==
    /\ IsBearerHeader(authorization, API_KEY)
    /\ API_KEY = <<"a">>
    /\ SubSeq(authorization.val, 1, 6) # Bearer
    /\ \A e \in PostEndpoints : Done(e) /\ resp[e].status_code = 200

(***************************************************************************)
(* C4 as stated: on both generate endpoints a request whose Authorization  *)
(* header is present but malformed (not two whitespace-separated parts, an *)
(* empty or whitespace-only value included, or a first part other than     *)
(* 'bearer') is answered 401 and nothing is rendered.                      *)
(***************************************************************************)
C4_MalformedRejected ==
    \A e \in PostEndpoints :
        (Done(e) /\ MalformedHeader) => resp[e] = Unauthorized

(***************************************************************************)
(* C5 as stated: with '</head>' in the HTML and a non-empty customCss, the *)
(* rendered string is the HTML with the style block inserted before the    *)
(* first '</head>' only.                                                   *)
(***************************************************************************)
C5_StyleBeforeFirstHeadClose ==
    \A e \in PostEndpoints :
        (/\ Done(e)
         /\ resp[e].status_code # 401
         /\ Truthy(request.customCss)
         /\ Contains(HeadClose, request.htmlContent)) =>
            resp[e].rendered =
                <<InsertBefore(request.htmlContent,
                     {Min(Occurrences(HeadClose, request.htmlContent))},
                     CssTag)>>

(***************************************************************************)
(* C5 amended: with '</head>' in the HTML and a non-empty customCss, the   *)
(* rendered string is the HTML with the style block inserted before every  *)
(* occurrence of '</head>', every other character unchanged.               *)
(***************************************************************************)
C5_StyleBeforeEveryHeadClose ==
    \A e \in PostEndpoints :
        (/\ Done(e)
         /\ resp[e].status_code # 401
         /\ Truthy(request.customCss)
         /\ Contains(HeadClose, request.htmlContent)) =>
            resp[e].rendered =
                <<InsertBefore(request.htmlContent,
                     Occurrences(HeadClose, request.htmlContent), CssTag)>>

C5_Witness ==
    /\ Truthy(request.customCss)
    /\ Cardinality(Occurrences(HeadClose, request.htmlContent)) >= 2
    /\ Contains(BodyOpen, request.htmlContent)
    /\ \A e \in PostEndpoints :
        /\ Done(e)
        /\ Len(resp[e].rendered) = 1
        /\ Len(resp[e].rendered[1]) =
               Len(request.htmlContent) + 2 * Len(CssTag)

(***************************************************************************)
(* C6 as stated: with no '</head>' but '<body>' in the HTML and a          *)
(* non-empty customCss, the rendered string is the HTML with a single      *)
(* '<head><style>css</style></head>' block inserted before the first       *)
(* '<body>'.                                                               *)
(***************************************************************************)
C6_HeadBeforeFirstBody ==
    \A e \in PostEndpoints :
        (/\ Done(e)
         /\ resp[e].status_code # 401
         /\ Truthy(request.customCss)
         /\ ~Contains(HeadClose, request.htmlContent)
         /\ Contains(BodyOpen, request.htmlContent)) =>
            resp[e].rendered =
                <<InsertBefore(request.htmlContent,
                     {Min(Occurrences(BodyOpen, request.htmlContent))},
                     HeadBlock)>>

(***************************************************************************)
(* C6 amended: with no '</head>' but '<body>' in the HTML and a non-empty  *)
(* customCss, the rendered string is the HTML with a                       *)
(* '<head><style>css</style></head>' block inserted before every           *)
(* occurrence of '<body>', nothing else changed.                           *)
(***************************************************************************)
C6_HeadBeforeEveryBody ==
    \A e \in PostEndpoints :
        (/\ Done(e)
         /\ resp[e].status_code # 401
         /\ Truthy(request.customCss)
         /\ ~Contains(HeadClose, request.htmlContent)
         /\ Contains(BodyOpen, request.htmlContent)) =>
            resp[e].rendered =
                <<InsertBefore(request.htmlContent,
                     Occurrences(BodyOpen, request.htmlContent), HeadBlock)>>

C6_Witness ==
    /\ Truthy(request.customCss)
    /\ ~Contains(HeadClose, request.htmlContent)
    /\ Cardinality(Occurrences(BodyOpen, request.htmlContent)) >= 2
    /\ \A e \in PostEndpoints :
        /\ Done(e)
        /\ Len(resp[e].rendered) = 1
        /\ Len(resp[e].rendered[1]) =
               Len(request.htmlContent) + 2 * Len(HeadBlock)

(***************************************************************************)
(* C7: served the same input by the same renderer, the two generate        *)
(* endpoints decide alike, render the same string, and on success the      *)
(* decoded 'pdf' field is the binary body, 'size' and Content-Length being *)
(* the byte count of the rendered document.                                *)
(***************************************************************************)
C7_EndpointsAgree ==
    (Done("generate_pdf") /\ Done("generate_pdf_base64")) =>
        LET bin == resp["generate_pdf"]
            b64 == resp["generate_pdf_base64"]
        IN  /\ bin.status_code = b64.status_code
            /\ bin.rendered = b64.rendered
            /\ bin.status_code = 200 =>
                /\ bin.content = weasyprint.pdf_bytes
                /\ b64decode(b64.pdf) = bin.content
                /\ b64.size = Len(weasyprint.pdf_bytes)
                /\ DecimalValue(bin.content_length) = Len(weasyprint.pdf_bytes)

C7_Witness ==
    /\ Done("generate_pdf") /\ Done("generate_pdf_base64")
    /\ resp["generate_pdf"].status_code = 200
    /\ resp["generate_pdf_base64"].status_code = 200
    /\ Len(resp["generate_pdf"].content) >= 10
    /\ Len(resp["generate_pdf"].content) % 3 # 0
    /\ Truthy(request.customCss)

(***************************************************************************)
(* C8: on both generate endpoints, when the renderer raises on a request   *)
(* that was not rejected, the response is 500 with detail 'PDF generation  *)
(* failed: ' followed by the error text, carries no PDF bytes, and the     *)
(* renderer was called once.                                               *)
(***************************************************************************)
C8_RenderFailureIs500 ==
    \A e \in PostEndpoints :
        (Done(e) /\ weasyprint.raises /\ resp[e].status_code # 401) =>
            /\ Len(resp[e].rendered) = 1
            /\ resp[e] = [status_code |-> 500,
                          detail |-> FailedPrefix \o weasyprint.error,
                          rendered |-> resp[e].rendered]

C8_Witness ==
    /\ weasyprint.raises
    /\ weasyprint.error # <<>>
    /\ authorization.some
    /\ \A e \in PostEndpoints : Done(e) /\ resp[e].status_code = 500

(***************************************************************************)
(* C9: when customCss is absent or the empty string, the string handed to  *)
(* the renderer is exactly the request's htmlContent, also when it holds   *)
(* '</head>' or '<body>'.                                                  *)
(***************************************************************************)
C9_NoCssIsIdentity ==
    \A e \in PostEndpoints :
        (Done(e) /\ resp[e].status_code # 401 /\ ~Truthy(request.customCss)) =>
            resp[e].rendered = <<request.htmlContent>>

C9_Witness ==
    /\ request.customCss = Some(<<>>)
    /\ Contains(HeadClose, request.htmlContent)
    /\ Contains(BodyOpen, request.htmlContent)
    /\ \A e \in PostEndpoints : Done(e) /\ resp[e].status_code = 200

(***************************************************************************)
(* C10 as stated: GET /health renders its probe HTML on every call and     *)
(* answers 200; when the probe raises the body is 'unhealthy' with a       *)
(* non-empty 'error' holding the error text, otherwise 'healthy'.  GET /   *)
(* never calls the renderer.                                               *)
(***************************************************************************)
C10_HealthErrorNonEmpty ==
    /\ Done("health_check") =>
        /\ resp["health_check"].status_code = 200
        /\ resp["health_check"].rendered = <<test_html>>
        /\ weasyprint.raises =>
            /\ resp["health_check"].status = "unhealthy"
            /\ resp["health_check"].error = weasyprint.error
            /\ resp["health_check"].error # <<>>
        /\ ~weasyprint.raises => resp["health_check"].status = "healthy"
    /\ Done("root") => resp["root"].rendered = <<>>

(***************************************************************************)
(* C10 amended: GET /health renders its probe HTML on every call and       *)
(* answers 200; when the probe raises the body is 'unhealthy' with an      *)
(* 'error' field equal to the error text (empty when the exception has no  *)
(* text), otherwise 'healthy'.  GET / never calls the renderer.            *)
(***************************************************************************)
C10_HealthReflectsRenderer ==
    /\ Done("health_check") =>
        /\ resp["health_check"].status_code = 200
        /\ resp["health_check"].rendered = <<test_html>>
        /\ weasyprint.raises =>
            /\ resp["health_check"].status = "unhealthy"
            /\ resp["health_check"].error = weasyprint.error
        /\ ~weasyprint.raises => resp["health_check"].status = "healthy"
    /\ Done("root") =>
        /\ resp["root"].status_code = 200
        /\ resp["root"].rendered = <<>>

C10_Witness ==
    /\ Done("health_check") /\ Done("root")
    /\ weasyprint.raises
    /\ resp["health_check"].status = "unhealthy"
    /\ resp["health_check"].error = <<"o","o","m">>

====
